---- MODULE Spec2Model ----
(***************************************************************************)
(* Model of csv_header_analyzer.py: the pattern-based header describer     *)
(* (CSVHeaderAnalyzer.generate_description_simple), the batch analysis     *)
(* (analyze_headers), header extraction (read_csv_headers), the two        *)
(* report sinks and main.                                                  *)
(*                                                                         *)
(* A Python str is modelled as a sequence of one-character strings, so     *)
(* that lower(), strip(), replace(), split on commas and the `in`          *)
(* substring test are computed character by character.  A Python dict is   *)
(* modelled as a sequence of [key, value] records in insertion order.      *)
(***************************************************************************)
EXTENDS Integers, Sequences, FiniteSets, TLC

VARIABLES
  header,        \* argument of a direct call of generate_description_simple
  described,     \* TRUE once that call has returned
  description,   \* the value that call returned
  pc,            \* position of main
  argc,          \* len(sys.argv)
  pathExists,    \* what os.path.exists(csv_file) answers
  fileRecords,   \* the records of the input file: <<>> or <<first line>>
  headers,       \* the list read_csv_headers returned
  idx,           \* position of the for loop of analyze_headers
  results,       \* the dict analyze_headers builds
  calls,         \* arguments generate_description_simple was invoked with
  console,       \* what main has printed so far, one tag per message
  printed,       \* the dict print_results has shown
  outFile,       \* state of output.txt
  openCount,     \* times output.txt was opened for writing
  saveOutcome,   \* how save_results ended
  readOutcome,   \* how the try block of read_csv_headers ended
  exitCode       \* exit status of the process

describeVars == <<header, described, description>>

mainVars == <<pc, argc, pathExists, fileRecords, headers, idx, results, calls,
              console, printed, outFile, openCount, saveOutcome, readOutcome,
              exitCode>>

vars == <<header, described, description, pc, argc, pathExists, fileRecords,
          headers, idx, results, calls, console, printed, outFile, openCount,
          saveOutcome, readOutcome, exitCode>>

(***************************************************************************)
(* Bounds of the model.                                                    *)
(***************************************************************************)
MaxAffix == 1

MaxFields == 3

MaxArgc == 3

(***************************************************************************)
(* str primitives.                                                         *)
(***************************************************************************)
UpperLetters ==
  <<"A","B","C","D","E","F","G","H","I","J","K","L","M",
    "N","O","P","Q","R","S","T","U","V","W","X","Y","Z">>

LowerLetters ==
  <<"a","b","c","d","e","f","g","h","i","j","k","l","m",
    "n","o","p","q","r","s","t","u","v","w","x","y","z">>

Whitespace == {" ", "\t"}

LowerChar(c) ==
  IF \E n \in DOMAIN UpperLetters : UpperLetters[n] = c
    THEN LowerLetters[CHOOSE n \in DOMAIN UpperLetters : UpperLetters[n] = c]
    ELSE c

UpperChar(c) ==
  IF \E n \in DOMAIN LowerLetters : LowerLetters[n] = c
    THEN UpperLetters[CHOOSE n \in DOMAIN LowerLetters : LowerLetters[n] = c]
    ELSE c

\* str.lower()
lower(s) == [n \in 1..Len(s) |-> LowerChar(s[n])]

\* str.replace(old, new) for one-character old and new
replace(s, old, new) == [n \in 1..Len(s) |-> IF s[n] = old THEN new ELSE s[n]]

\* sub in s
Contains(sub, s) ==
  \E n \in 0..(Len(s) - Len(sub)) : \A k \in 1..Len(sub) : s[n + k] = sub[k]

\* str.strip(): drop leading and trailing whitespace
strip(s) ==
  LET inner == {n \in 1..Len(s) : s[n] \notin Whitespace}
  IN IF inner = {} THEN <<>>
     ELSE SubSeq(s, CHOOSE n \in inner : \A m \in inner : n <= m,
                    CHOOSE n \in inner : \A m \in inner : m <= n)

(***************************************************************************)
(* The pattern table of generate_description_simple, in declaration order. *)
(***************************************************************************)
patterns ==
  <<
    (* 'invoice_id': 'unique transaction identifier' *)
    [key  |-> <<"i","n","v","o","i","c","e","_","i","d">>,
     desc |-> <<"u","n","i","q","u","e"," ","t","r","a","n","s","a","c","t","i","o","n"," ","i","d","e",
               "n","t","i","f","i","e","r">>],
    (* 'order_id': 'unique order identifier' *)
    [key  |-> <<"o","r","d","e","r","_","i","d">>,
     desc |-> <<"u","n","i","q","u","e"," ","o","r","d","e","r"," ","i","d","e","n","t","i","f","i","e",
               "r">>],
    (* 'customer_id': 'unique customer identifier' *)
    [key  |-> <<"c","u","s","t","o","m","e","r","_","i","d">>,
     desc |-> <<"u","n","i","q","u","e"," ","c","u","s","t","o","m","e","r"," ","i","d","e","n","t","i",
               "f","i","e","r">>],
    (* 'product_id': 'unique product identifier' *)
    [key  |-> <<"p","r","o","d","u","c","t","_","i","d">>,
     desc |-> <<"u","n","i","q","u","e"," ","p","r","o","d","u","c","t"," ","i","d","e","n","t","i","f",
               "i","e","r">>],
    (* 'user_id': 'unique user identifier' *)
    [key  |-> <<"u","s","e","r","_","i","d">>,
     desc |-> <<"u","n","i","q","u","e"," ","u","s","e","r"," ","i","d","e","n","t","i","f","i","e","r">>],
    (* 'id': 'unique identifier' *)
    [key  |-> <<"i","d">>,
     desc |-> <<"u","n","i","q","u","e"," ","i","d","e","n","t","i","f","i","e","r">>],
    (* 'vendor_name': 'the supplier or vendor associated with the transaction' *)
    [key  |-> <<"v","e","n","d","o","r","_","n","a","m","e">>,
     desc |-> <<"t","h","e"," ","s","u","p","p","l","i","e","r"," ","o","r"," ","v","e","n","d","o","r",
               " ","a","s","s","o","c","i","a","t","e","d"," ","w","i","t","h"," ","t","h","e"," ","t",
               "r","a","n","s","a","c","t","i","o","n">>],
    (* 'customer_name': 'the customer associated with the transaction' *)
    [key  |-> <<"c","u","s","t","o","m","e","r","_","n","a","m","e">>,
     desc |-> <<"t","h","e"," ","c","u","s","t","o","m","e","r"," ","a","s","s","o","c","i","a","t","e",
               "d"," ","w","i","t","h"," ","t","h","e"," ","t","r","a","n","s","a","c","t","i","o","n">>],
    (* 'product_name': 'the name of the product' *)
    [key  |-> <<"p","r","o","d","u","c","t","_","n","a","m","e">>,
     desc |-> <<"t","h","e"," ","n","a","m","e"," ","o","f"," ","t","h","e"," ","p","r","o","d","u","c",
               "t">>],
    (* 'company_name': 'the name of the company' *)
    [key  |-> <<"c","o","m","p","a","n","y","_","n","a","m","e">>,
     desc |-> <<"t","h","e"," ","n","a","m","e"," ","o","f"," ","t","h","e"," ","c","o","m","p","a","n",
               "y">>],
    (* 'name': 'name or title information' *)
    [key  |-> <<"n","a","m","e">>,
     desc |-> <<"n","a","m","e"," ","o","r"," ","t","i","t","l","e"," ","i","n","f","o","r","m","a","t",
               "i","o","n">>],
    (* 'amount': 'monetary value of the transaction' *)
    [key  |-> <<"a","m","o","u","n","t">>,
     desc |-> <<"m","o","n","e","t","a","r","y"," ","v","a","l","u","e"," ","o","f"," ","t","h","e"," ",
               "t","r","a","n","s","a","c","t","i","o","n">>],
    (* 'price': 'price or cost of the item' *)
    [key  |-> <<"p","r","i","c","e">>,
     desc |-> <<"p","r","i","c","e"," ","o","r"," ","c","o","s","t"," ","o","f"," ","t","h","e"," ","i",
               "t","e","m">>],
    (* 'total': 'total amount' *)
    [key  |-> <<"t","o","t","a","l">>,
     desc |-> <<"t","o","t","a","l"," ","a","m","o","u","n","t">>],
    (* 'subtotal': 'subtotal amount before taxes' *)
    [key  |-> <<"s","u","b","t","o","t","a","l">>,
     desc |-> <<"s","u","b","t","o","t","a","l"," ","a","m","o","u","n","t"," ","b","e","f","o","r","e",
               " ","t","a","x","e","s">>],
    (* 'tax': 'tax amount' *)
    [key  |-> <<"t","a","x">>,
     desc |-> <<"t","a","x"," ","a","m","o","u","n","t">>],
    (* 'discount': 'discount amount' *)
    [key  |-> <<"d","i","s","c","o","u","n","t">>,
     desc |-> <<"d","i","s","c","o","u","n","t"," ","a","m","o","u","n","t">>],
    (* 'cost': 'cost of the item or service' *)
    [key  |-> <<"c","o","s","t">>,
     desc |-> <<"c","o","s","t"," ","o","f"," ","t","h","e"," ","i","t","e","m"," ","o","r"," ","s","e",
               "r","v","i","c","e">>],
    (* 'fee': 'fee amount' *)
    [key  |-> <<"f","e","e">>,
     desc |-> <<"f","e","e"," ","a","m","o","u","n","t">>],
    (* 'charge': 'charge amount' *)
    [key  |-> <<"c","h","a","r","g","e">>,
     desc |-> <<"c","h","a","r","g","e"," ","a","m","o","u","n","t">>],
    (* 'payment_date': 'date on which the payment was made' *)
    [key  |-> <<"p","a","y","m","e","n","t","_","d","a","t","e">>,
     desc |-> <<"d","a","t","e"," ","o","n"," ","w","h","i","c","h"," ","t","h","e"," ","p","a","y","m",
               "e","n","t"," ","w","a","s"," ","m","a","d","e">>],
    (* 'order_date': 'date when the order was placed' *)
    [key  |-> <<"o","r","d","e","r","_","d","a","t","e">>,
     desc |-> <<"d","a","t","e"," ","w","h","e","n"," ","t","h","e"," ","o","r","d","e","r"," ","w","a",
               "s"," ","p","l","a","c","e","d">>],
    (* 'invoice_date': 'date when the invoice was created' *)
    [key  |-> <<"i","n","v","o","i","c","e","_","d","a","t","e">>,
     desc |-> <<"d","a","t","e"," ","w","h","e","n"," ","t","h","e"," ","i","n","v","o","i","c","e"," ",
               "w","a","s"," ","c","r","e","a","t","e","d">>],
    (* 'due_date': 'date when payment is due' *)
    [key  |-> <<"d","u","e","_","d","a","t","e">>,
     desc |-> <<"d","a","t","e"," ","w","h","e","n"," ","p","a","y","m","e","n","t"," ","i","s"," ","d",
               "u","e">>],
    (* 'created_date': 'date when the record was created' *)
    [key  |-> <<"c","r","e","a","t","e","d","_","d","a","t","e">>,
     desc |-> <<"d","a","t","e"," ","w","h","e","n"," ","t","h","e"," ","r","e","c","o","r","d"," ","w",
               "a","s"," ","c","r","e","a","t","e","d">>],
    (* 'updated_date': 'date when the record was last updated' *)
    [key  |-> <<"u","p","d","a","t","e","d","_","d","a","t","e">>,
     desc |-> <<"d","a","t","e"," ","w","h","e","n"," ","t","h","e"," ","r","e","c","o","r","d"," ","w",
               "a","s"," ","l","a","s","t"," ","u","p","d","a","t","e","d">>],
    (* 'date': 'date information' *)
    [key  |-> <<"d","a","t","e">>,
     desc |-> <<"d","a","t","e"," ","i","n","f","o","r","m","a","t","i","o","n">>],
    (* 'email': 'email address' *)
    [key  |-> <<"e","m","a","i","l">>,
     desc |-> <<"e","m","a","i","l"," ","a","d","d","r","e","s","s">>],
    (* 'phone': 'phone number' *)
    [key  |-> <<"p","h","o","n","e">>,
     desc |-> <<"p","h","o","n","e"," ","n","u","m","b","e","r">>],
    (* 'address': 'address information' *)
    [key  |-> <<"a","d","d","r","e","s","s">>,
     desc |-> <<"a","d","d","r","e","s","s"," ","i","n","f","o","r","m","a","t","i","o","n">>],
    (* 'zip': 'postal code' *)
    [key  |-> <<"z","i","p">>,
     desc |-> <<"p","o","s","t","a","l"," ","c","o","d","e">>],
    (* 'city': 'city name' *)
    [key  |-> <<"c","i","t","y">>,
     desc |-> <<"c","i","t","y"," ","n","a","m","e">>],
    (* 'state': 'state or province' *)
    [key  |-> <<"s","t","a","t","e">>,
     desc |-> <<"s","t","a","t","e"," ","o","r"," ","p","r","o","v","i","n","c","e">>],
    (* 'country': 'country name' *)
    [key  |-> <<"c","o","u","n","t","r","y">>,
     desc |-> <<"c","o","u","n","t","r","y"," ","n","a","m","e">>],
    (* 'status': 'current status of the record' *)
    [key  |-> <<"s","t","a","t","u","s">>,
     desc |-> <<"c","u","r","r","e","n","t"," ","s","t","a","t","u","s"," ","o","f"," ","t","h","e"," ",
               "r","e","c","o","r","d">>],
    (* 'type': 'category or type classification' *)
    [key  |-> <<"t","y","p","e">>,
     desc |-> <<"c","a","t","e","g","o","r","y"," ","o","r"," ","t","y","p","e"," ","c","l","a","s","s",
               "i","f","i","c","a","t","i","o","n">>],
    (* 'category': 'category classification' *)
    [key  |-> <<"c","a","t","e","g","o","r","y">>,
     desc |-> <<"c","a","t","e","g","o","r","y"," ","c","l","a","s","s","i","f","i","c","a","t","i","o",
               "n">>],
    (* 'description': 'detailed description of the item' *)
    [key  |-> <<"d","e","s","c","r","i","p","t","i","o","n">>,
     desc |-> <<"d","e","t","a","i","l","e","d"," ","d","e","s","c","r","i","p","t","i","o","n"," ","o",
               "f"," ","t","h","e"," ","i","t","e","m">>],
    (* 'vendor': 'supplier or vendor information' *)
    [key  |-> <<"v","e","n","d","o","r">>,
     desc |-> <<"s","u","p","p","l","i","e","r"," ","o","r"," ","v","e","n","d","o","r"," ","i","n","f",
               "o","r","m","a","t","i","o","n">>],
    (* 'customer': 'customer information' *)
    [key  |-> <<"c","u","s","t","o","m","e","r">>,
     desc |-> <<"c","u","s","t","o","m","e","r"," ","i","n","f","o","r","m","a","t","i","o","n">>],
    (* 'payment': 'payment-related information' *)
    [key  |-> <<"p","a","y","m","e","n","t">>,
     desc |-> <<"p","a","y","m","e","n","t","-","r","e","l","a","t","e","d"," ","i","n","f","o","r","m",
               "a","t","i","o","n">>],
    (* 'invoice': 'invoice or billing information' *)
    [key  |-> <<"i","n","v","o","i","c","e">>,
     desc |-> <<"i","n","v","o","i","c","e"," ","o","r"," ","b","i","l","l","i","n","g"," ","i","n","f",
               "o","r","m","a","t","i","o","n">>],
    (* 'order': 'order information' *)
    [key  |-> <<"o","r","d","e","r">>,
     desc |-> <<"o","r","d","e","r"," ","i","n","f","o","r","m","a","t","i","o","n">>],
    (* 'product': 'product information' *)
    [key  |-> <<"p","r","o","d","u","c","t">>,
     desc |-> <<"p","r","o","d","u","c","t"," ","i","n","f","o","r","m","a","t","i","o","n">>],
    (* 'item': 'item information' *)
    [key  |-> <<"i","t","e","m">>,
     desc |-> <<"i","t","e","m"," ","i","n","f","o","r","m","a","t","i","o","n">>],
    (* 'service': 'service information' *)
    [key  |-> <<"s","e","r","v","i","c","e">>,
     desc |-> <<"s","e","r","v","i","c","e"," ","i","n","f","o","r","m","a","t","i","o","n">>],
    (* 'quantity': 'quantity or count' *)
    [key  |-> <<"q","u","a","n","t","i","t","y">>,
     desc |-> <<"q","u","a","n","t","i","t","y"," ","o","r"," ","c","o","u","n","t">>],
    (* 'qty': 'quantity or count' *)
    [key  |-> <<"q","t","y">>,
     desc |-> <<"q","u","a","n","t","i","t","y"," ","o","r"," ","c","o","u","n","t">>],
    (* 'count': 'count or number' *)
    [key  |-> <<"c","o","u","n","t">>,
     desc |-> <<"c","o","u","n","t"," ","o","r"," ","n","u","m","b","e","r">>],
    (* 'number': 'numeric value' *)
    [key  |-> <<"n","u","m","b","e","r">>,
     desc |-> <<"n","u","m","e","r","i","c"," ","v","a","l","u","e">>],
    (* 'shipping': 'shipping information' *)
    [key  |-> <<"s","h","i","p","p","i","n","g">>,
     desc |-> <<"s","h","i","p","p","i","n","g"," ","i","n","f","o","r","m","a","t","i","o","n">>],
    (* 'billing': 'billing information' *)
    [key  |-> <<"b","i","l","l","i","n","g">>,
     desc |-> <<"b","i","l","l","i","n","g"," ","i","n","f","o","r","m","a","t","i","o","n">>],
    (* 'delivery': 'delivery information' *)
    [key  |-> <<"d","e","l","i","v","e","r","y">>,
     desc |-> <<"d","e","l","i","v","e","r","y"," ","i","n","f","o","r","m","a","t","i","o","n">>]
  >>

FallbackPrefix ==
  <<"d","a","t","a"," ","f","i","e","l","d"," ","r","e","l","a","t","e","d"," ","t","o"," ">>

\* variant: the exact-match step never succeeds
ExactMatch_Never(header_lower) == FALSE

\* header_lower in patterns
ExactMatch(header_lower) ==
  \E n \in DOMAIN patterns : patterns[n].key = header_lower

\* variant: the partial match without the length test
PartialMatch_AnyLength(n, header_lower) == Contains(patterns[n].key, header_lower)

\* pattern in header_lower and len(pattern) > 2, for the n-th pattern
PartialMatch(n, header_lower) ==
  Contains(patterns[n].key, header_lower) /\ Len(patterns[n].key) > 2

\* variant: the last matching pattern wins instead of the first
generate_description_simple_LastHit(h) ==
  LET header_lower == lower(h)
      hits == {n \in DOMAIN patterns :
                 Contains(patterns[n].key, header_lower) /\ Len(patterns[n].key) > 2}
      clean_header == replace(replace(header_lower, "_", " "), "-", " ")
  IN IF \E n \in DOMAIN patterns : patterns[n].key = header_lower
       THEN patterns[CHOOSE n \in DOMAIN patterns : patterns[n].key = header_lower].desc
     ELSE IF hits # {}
       THEN patterns[CHOOSE n \in hits : \A m \in hits : m <= n].desc
     ELSE FallbackPrefix \o clean_header

generate_description_simple(h) ==
  LET header_lower == lower(h)
      hits == {n \in DOMAIN patterns : PartialMatch(n, header_lower)}
      clean_header == replace(replace(header_lower, "_", " "), "-", " ")
  IN IF ExactMatch(header_lower)
       THEN patterns[CHOOSE n \in DOMAIN patterns : patterns[n].key = header_lower].desc
     ELSE IF hits # {}
       THEN patterns[CHOOSE n \in hits : \A m \in hits : n <= m].desc
     ELSE FallbackPrefix \o clean_header

generate_description_with_model(h) == generate_description_simple(h)

(***************************************************************************)
(* Direct calls of generate_description_simple: the header is drawn from   *)
(* a table key (or nothing) placed between affixes, in three casings.      *)
(***************************************************************************)
Fragments ==
  { <<"_">>, <<"-">>, <<"g","r">>, <<"i","d">>, <<"s","u","b">>,
    <<"t","o","t","a","l">>, <<"n","a","m","e">> }

RECURSIVE Affixes(_)
Affixes(n) ==
  IF n = 0 THEN {<<>>}
  ELSE LET shorter == Affixes(n - 1)
       IN shorter \cup {a \o f : a \in shorter, f \in Fragments}

Cores == {<<>>} \cup {patterns[n].key : n \in DOMAIN patterns}

Casings == {"lower", "upper", "capitalized"}

Cased(s, c) ==
  CASE c = "upper" -> [n \in 1..Len(s) |-> UpperChar(s[n])]
    [] c = "capitalized" -> [n \in 1..Len(s) |-> IF n = 1 THEN UpperChar(s[n]) ELSE s[n]]
    [] OTHER -> s

HeaderInputs ==
  {Cased(p \o k \o q, c) :
     p \in Affixes(MaxAffix), k \in Cores, q \in Affixes(1), c \in Casings}

OutputUntouched == [status |-> "untouched", entries |-> <<>>]

MainIdle ==
  /\ pc = "idle" /\ argc = 0 /\ pathExists = FALSE /\ fileRecords = <<>>
  /\ headers = <<>> /\ idx = 0 /\ results = <<>> /\ calls = <<>>
  /\ console = <<>> /\ printed = <<>> /\ outFile = OutputUntouched
  /\ openCount = 0 /\ saveOutcome = "none" /\ readOutcome = "none"
  /\ exitCode = 0

InitDescribe ==
  /\ header \in HeaderInputs
  /\ described = FALSE
  /\ description = <<>>
  /\ MainIdle

Describe ==
  /\ ~described
  /\ described' = TRUE
  /\ description' = generate_description_simple(header)
  /\ UNCHANGED <<header, pc, argc, pathExists, fileRecords, headers, idx, results,
                 calls, console, printed, outFile, openCount, saveOutcome,
                 readOutcome, exitCode>>

NextDescribe == Describe

SpecDescribe == InitDescribe /\ [][NextDescribe]_vars

(***************************************************************************)
(* dict: a sequence of [key, value] records in insertion order.            *)
(***************************************************************************)
\* variant: an existing key is removed and inserted again at the end
DictSet_Reinsert(d, k, v) ==
  Append(SelectSeq(d, LAMBDA e : e.key # k), [key |-> k, value |-> v])

\* d[k] = v: an existing key keeps its position, a new key goes last
DictSet(d, k, v) ==
  IF \E n \in 1..Len(d) : d[n].key = k
    THEN [n \in 1..Len(d) |-> IF d[n].key = k THEN [key |-> k, value |-> v] ELSE d[n]]
    ELSE Append(d, [key |-> k, value |-> v])

(***************************************************************************)
(* read_csv_headers.  The first line holds no quote character, so a        *)
(* csv.reader record is the line split at its commas; an empty line is     *)
(* the empty record.                                                       *)
(***************************************************************************)
RECURSIVE split(_)
split(s) ==
  LET commas == {n \in 1..Len(s) : s[n] = ","}
  IN IF commas = {} THEN <<s>>
     ELSE LET c == CHOOSE n \in commas : \A m \in commas : n <= m
          IN <<SubSeq(s, 1, c - 1)>> \o split(SubSeq(s, c + 1, Len(s)))

\* next(reader) on a file that has a first line
csv_record(line) == IF line = <<>> THEN <<>> ELSE split(line)

ReadFaults == {"FileNotFoundError", "Exception"}

\* how the try block ends: open() may raise; next() raises StopIteration
\* on a file with no record
read_outcome(fault, records) ==
  IF fault \in ReadFaults THEN fault
  ELSE IF records = <<>> THEN "StopIteration"
  ELSE "returned"

\* the list read_csv_headers returns: both except clauses return []
read_csv_headers(fault, records) ==
  IF read_outcome(fault, records) = "FileNotFoundError" THEN <<>>
  ELSE IF read_outcome(fault, records) \in {"Exception", "StopIteration"} THEN <<>>
  ELSE LET row == csv_record(records[1])
       IN [n \in 1..Len(row) |-> strip(row[n])]

(***************************************************************************)
(* Input files of main: no record, or a first line of up to MaxFields      *)
(* fields joined by commas.                                                *)
(***************************************************************************)
FieldInputs ==
  { <<>>, <<" ">>, <<"b","_","i","d">>, <<"B","_","I","D">>, <<"a","_","i","d">>,
    <<" ","A","m","o","u","n","t","\t">>, <<"n","o","t","e","s">> }

RECURSIVE join(_)
join(fields) ==
  IF Len(fields) = 1 THEN fields[1]
  ELSE fields[1] \o <<",">> \o join(Tail(fields))

FirstLines ==
  {join(fs) : fs \in UNION {[1..n -> FieldInputs] : n \in 1..MaxFields}}

FileInputs == {<<>>} \cup {<<line>> : line \in FirstLines}

Init ==
  /\ header = <<>> /\ described = FALSE /\ description = <<>>
  /\ pc = "check_args"
  /\ argc \in 1..MaxArgc
  /\ pathExists \in BOOLEAN
  /\ fileRecords \in FileInputs
  /\ headers = <<>> /\ idx = 0 /\ results = <<>> /\ calls = <<>>
  /\ console = <<>> /\ printed = <<>> /\ outFile = OutputUntouched
  /\ openCount = 0 /\ saveOutcome = "none" /\ readOutcome = "none"
  /\ exitCode = 0

\* variant: the argument check only rejects a missing argument
CheckArgs_AtLeastOne ==
  /\ pc = "check_args"
  /\ IF argc < 2
       THEN /\ console' = console \o <<"usage">>
            /\ exitCode' = 1
            /\ pc' = "done"
       ELSE /\ pc' = "check_exists"
            /\ UNCHANGED <<console, exitCode>>
  /\ UNCHANGED <<header, described, description, argc, pathExists, fileRecords,
                 headers, idx, results, calls, printed, outFile, openCount,
                 saveOutcome, readOutcome>>

\* if len(sys.argv) != 2: usage, sys.exit(1)
CheckArgs ==
  /\ pc = "check_args"
  /\ IF argc # 2
       THEN /\ console' = console \o <<"usage">>
            /\ exitCode' = 1
            /\ pc' = "done"
       ELSE /\ pc' = "check_exists"
            /\ UNCHANGED <<console, exitCode>>
  /\ UNCHANGED <<header, described, description, argc, pathExists, fileRecords,
                 headers, idx, results, calls, printed, outFile, openCount,
                 saveOutcome, readOutcome>>

\* if not os.path.exists(csv_file): sys.exit(1); else build the analyzer
CheckExists ==
  /\ pc = "check_exists"
  /\ IF ~pathExists
       THEN /\ console' = console \o <<"does_not_exist">>
            /\ exitCode' = 1
            /\ pc' = "done"
       ELSE /\ console' = console \o <<"initializing", "reading">>
            /\ pc' = "read"
            /\ UNCHANGED exitCode
  /\ UNCHANGED <<header, described, description, argc, pathExists, fileRecords,
                 headers, idx, results, calls, printed, outFile, openCount,
                 saveOutcome, readOutcome>>

\* headers = analyzer.read_csv_headers(csv_file)
ReadHeaders ==
  /\ pc = "read"
  /\ \E fault \in ReadFaults \cup {"none"} :
       /\ readOutcome' = read_outcome(fault, fileRecords)
       /\ headers' = read_csv_headers(fault, fileRecords)
       /\ console' = IF read_outcome(fault, fileRecords) = "returned"
                       THEN console
                       ELSE console \o <<"read_error">>
  /\ pc' = "check_headers"
  /\ UNCHANGED <<header, described, description, argc, pathExists, fileRecords,
                 idx, results, calls, printed, outFile, openCount, saveOutcome,
                 exitCode>>

\* variant: the empty header list is reported but the run goes on
CheckHeaders_NoExit ==
  /\ pc = "check_headers"
  /\ console' = IF headers = <<>>
                  THEN console \o <<"no_headers", "found", "analyzing">>
                  ELSE console \o <<"found", "analyzing">>
  /\ pc' = "analyze"
  /\ idx' = 1
  /\ results' = <<>>
  /\ UNCHANGED <<header, described, description, argc, pathExists, fileRecords,
                 headers, calls, printed, outFile, openCount, saveOutcome,
                 readOutcome, exitCode>>

\* if not headers: sys.exit(1); else enter analyze_headers with results = {}
CheckHeaders ==
  /\ pc = "check_headers"
  /\ IF headers = <<>>
       THEN /\ console' = console \o <<"no_headers">>
            /\ exitCode' = 1
            /\ pc' = "done"
            /\ UNCHANGED <<idx, results>>
       ELSE /\ console' = console \o <<"found", "analyzing">>
            /\ pc' = "analyze"
            /\ idx' = 1
            /\ results' = <<>>
            /\ UNCHANGED exitCode
  /\ UNCHANGED <<header, described, description, argc, pathExists, fileRecords,
                 headers, calls, printed, outFile, openCount, saveOutcome,
                 readOutcome>>

\* variant: the loop without the test that skips empty headers
AnalyzeStep_NoSkip ==
  /\ pc = "analyze"
  /\ idx <= Len(headers)
  /\ calls' = Append(calls, headers[idx])
  /\ results' = DictSet(results, headers[idx],
                        generate_description_with_model(headers[idx]))
  /\ idx' = idx + 1
  /\ UNCHANGED <<header, described, description, pc, argc, pathExists, fileRecords,
                 headers, console, printed, outFile, openCount, saveOutcome,
                 readOutcome, exitCode>>

\* one iteration of the for loop of analyze_headers
AnalyzeStep ==
  /\ pc = "analyze"
  /\ idx <= Len(headers)
  /\ IF headers[idx] # <<>>
       THEN /\ calls' = Append(calls, headers[idx])
            /\ results' = DictSet(results, headers[idx],
                                  generate_description_with_model(headers[idx]))
       ELSE UNCHANGED <<calls, results>>
  /\ idx' = idx + 1
  /\ UNCHANGED <<header, described, description, pc, argc, pathExists, fileRecords,
                 headers, console, printed, outFile, openCount, saveOutcome,
                 readOutcome, exitCode>>

\* return results
AnalyzeReturn ==
  /\ pc = "analyze"
  /\ idx > Len(headers)
  /\ pc' = "print"
  /\ UNCHANGED <<header, described, description, argc, pathExists, fileRecords,
                 headers, idx, results, calls, console, printed, outFile,
                 openCount, saveOutcome, readOutcome, exitCode>>

\* analyzer.print_results(results)
PrintResults ==
  /\ pc = "print"
  /\ printed' = results
  /\ console' = console \o <<"results">>
  /\ pc' = "save"
  /\ UNCHANGED <<header, described, description, argc, pathExists, fileRecords,
                 headers, idx, results, calls, outFile, openCount, saveOutcome,
                 readOutcome, exitCode>>

SaveOutcomes == {"saved", "open_failed", "write_failed"}

\* variant: a failure of the write is not caught and ends the run
SaveResults_Reraise ==
  /\ pc = "save"
  /\ \E outcome \in SaveOutcomes :
       /\ saveOutcome' = outcome
       /\ CASE outcome = "saved" ->
                 /\ outFile' = [status |-> "written", entries |-> results]
                 /\ console' = console \o <<"saved">>
                 /\ pc' = "complete"
                 /\ UNCHANGED exitCode
            [] outcome = "open_failed" ->
                 /\ outFile' = outFile
                 /\ console' = console \o <<"traceback">>
                 /\ pc' = "done"
                 /\ exitCode' = 1
            [] outcome = "write_failed" ->
                 /\ \E k \in 0..Len(results) :
                      outFile' = [status |-> "partial", entries |-> SubSeq(results, 1, k)]
                 /\ console' = console \o <<"traceback">>
                 /\ pc' = "done"
                 /\ exitCode' = 1
  /\ openCount' = openCount + 1
  /\ UNCHANGED <<header, described, description, argc, pathExists, fileRecords,
                 headers, idx, results, calls, printed, readOutcome>>

\* analyzer.save_results(results): open(output_file, 'w') may raise before
\* the file is touched, a write may raise after it was truncated; the
\* except clause logs the error and the method returns
SaveResults ==
  /\ pc = "save"
  /\ \E outcome \in SaveOutcomes :
       /\ saveOutcome' = outcome
       /\ CASE outcome = "saved" ->
                 /\ outFile' = [status |-> "written", entries |-> results]
                 /\ console' = console \o <<"saved">>
            [] outcome = "open_failed" ->
                 /\ outFile' = outFile
                 /\ console' = console \o <<"save_error">>
            [] outcome = "write_failed" ->
                 /\ \E k \in 0..Len(results) :
                      outFile' = [status |-> "partial", entries |-> SubSeq(results, 1, k)]
                 /\ console' = console \o <<"save_error">>
  /\ openCount' = openCount + 1
  /\ pc' = "complete"
  /\ UNCHANGED <<header, described, description, argc, pathExists, fileRecords,
                 headers, idx, results, calls, printed, readOutcome, exitCode>>

\* print("Analysis complete!") and main returns: exit status 0
Complete ==
  /\ pc = "complete"
  /\ console' = console \o <<"complete">>
  /\ pc' = "done"
  /\ UNCHANGED <<header, described, description, argc, pathExists, fileRecords,
                 headers, idx, results, calls, printed, outFile, openCount,
                 saveOutcome, readOutcome, exitCode>>

Next ==
  \/ CheckArgs
  \/ CheckExists
  \/ ReadHeaders
  \/ CheckHeaders
  \/ AnalyzeStep
  \/ AnalyzeReturn
  \/ PrintResults
  \/ SaveResults
  \/ Complete

Spec == Init /\ [][Next]_vars

(***************************************************************************)
(* Properties of generate_description_simple, checked under SpecDescribe.  *)
(***************************************************************************)
KeyAt(n) == patterns[n].key

DescAt(n) == patterns[n].desc

EqualsSomeKey(s) == \E n \in DOMAIN patterns : KeyAt(n) = s

HasUpperCase(s) == \E n \in 1..Len(s) : LowerChar(s[n]) # s[n]

\* positions of the table keys that occur in s
KeysOccurringIn(s) == {n \in DOMAIN patterns : Contains(KeyAt(n), s)}

ProperSubstring(a, b) == Len(a) < Len(b) /\ Contains(a, b)

\* C1: a header whose lowercased form equals a table key K is described by
\* the description the table maps K to, whatever else it contains and
\* whatever its casing.
C1_ExactMatchWins ==
  described =>
    LET header_lower == lower(header)
    IN \A n \in DOMAIN patterns :
         header_lower = KeyAt(n) => description = DescAt(n)

\* a described header in upper case that equals a key and contains an
\* earlier-declared key of length > 2 (SUBTOTAL contains total)
C1_Witness ==
  /\ described
  /\ HasUpperCase(header)
  /\ \E n \in DOMAIN patterns :
       /\ lower(header) = KeyAt(n)
       /\ description = DescAt(n)
       /\ \E m \in 1..(n - 1) : Len(KeyAt(m)) > 2 /\ Contains(KeyAt(m), KeyAt(n))

\* C2 as stated: whenever a key K occurs in the lowercased header and no
\* earlier-declared key occurs in it, the header gets K's description.
C2_FirstSubstringAnyKey ==
  described =>
    LET occurring == KeysOccurringIn(lower(header))
    IN \A n \in occurring :
         (\A m \in 1..(n - 1) : m \notin occurring) => description = DescAt(n)

\* C2 amended: the same for a key K of more than 2 characters, when the
\* lowercased header is K itself or is no table key at all.
C2_FirstSubstringLongKey ==
  described =>
    LET header_lower == lower(header)
        occurring == KeysOccurringIn(header_lower)
    IN \A n \in occurring :
         ( /\ Len(KeyAt(n)) > 2
           /\ header_lower = KeyAt(n) \/ ~EqualsSomeKey(header_lower)
           /\ \A m \in 1..(n - 1) : m \notin occurring )
         => description = DescAt(n)

\* a described header that is no key and contains two keys of length > 2,
\* the earlier-declared of which gives the description
C2_Witness ==
  /\ described
  /\ ~EqualsSomeKey(lower(header))
  /\ LET occurring == KeysOccurringIn(lower(header))
     IN \E n \in occurring :
          /\ Len(KeyAt(n)) > 2
          /\ \A m \in 1..(n - 1) : m \notin occurring
          /\ \E m \in occurring : m > n /\ Len(KeyAt(m)) > 2
          /\ description = DescAt(n)

\* C3: a header whose lowercased form is no key and contains no key of
\* more than 2 characters gets "data field related to " followed by the
\* lowercased header with every "_" and "-" turned into a space.
C3_Fallback ==
  LET header_lower == lower(header)
  IN ( /\ described
       /\ ~EqualsSomeKey(header_lower)
       /\ \A n \in DOMAIN patterns :
            Len(KeyAt(n)) > 2 => ~Contains(KeyAt(n), header_lower) )
     => /\ Len(description) = Len(FallbackPrefix) + Len(header)
        /\ SubSeq(description, 1, Len(FallbackPrefix)) = FallbackPrefix
        /\ \A n \in 1..Len(header) :
             description[Len(FallbackPrefix) + n] =
               IF header_lower[n] \in {"_", "-"} THEN " " ELSE header_lower[n]

\* a described header with an upper-case letter and a "_" or "-" that
\* contains the 2-character key id, is no key, and took the fallback
C3_Witness ==
  /\ described
  /\ HasUpperCase(header)
  /\ \E n \in 1..Len(header) : header[n] \in {"_", "-"}
  /\ Contains(<<"i","d">>, lower(header))
  /\ ~EqualsSomeKey(lower(header))
  /\ SubSeq(description, 1, Len(FallbackPrefix)) = FallbackPrefix
  /\ Len(description) = Len(FallbackPrefix) + Len(header)

\* C10: for all table keys K1, K2 with K1 longer than 2 characters and a
\* proper substring of K2, K2 is declared before K1, and so a header that
\* contains K2 and equals no key is not given K1's description.
C10_SpecificKeysFirst ==
  (described /\ ~EqualsSomeKey(lower(header))) =>
    LET occurring == KeysOccurringIn(lower(header))
    IN \A n2 \in occurring :
         \A n1 \in DOMAIN patterns :
           (Len(KeyAt(n1)) > 2 /\ ProperSubstring(KeyAt(n1), KeyAt(n2)))
           => n2 < n1 /\ description # DescAt(n1)

(***************************************************************************)
(* Properties of main and analyze_headers, checked under Spec.             *)
(***************************************************************************)
AnalysisReached == pc \in {"analyze", "print", "save", "complete"}

AnalysisReturned == pc \in {"print", "save", "complete"} \/ (pc = "done" /\ exitCode = 0)

\* positions of the headers analyze_headers has taken so far
Consumed == IF pc = "analyze" THEN 1..(idx - 1) ELSE 1..Len(headers)

\* positions among them holding the first occurrence of a non-empty header
FirstOccurrences ==
  {n \in Consumed : headers[n] # <<>> /\ \A m \in 1..(n - 1) : headers[m] # headers[n]}

\* C4: the keys of the result mapping are, in order, the distinct non-empty
\* headers in order of first occurrence and in their original casing, each
\* mapped to its description; this holds after every iteration of the loop,
\* so a repeated header neither moves nor adds an entry.
C4_FirstOccurrenceOrder ==
  (AnalysisReached \/ AnalysisReturned) =>
    /\ Len(results) = Cardinality(FirstOccurrences)
    /\ \A r \in 1..Len(results) :
         \E n \in FirstOccurrences :
           /\ Cardinality({m \in FirstOccurrences : m < n}) = r - 1
           /\ results[r].key = headers[n]
           /\ results[r].value = generate_description_simple(headers[n])

\* analysis returned for a row whose first header is repeated after another
\* header: the repeated header still comes first
C4_Witness ==
  /\ pc = "print"
  /\ Len(results) = 2
  /\ Len(headers) = 3
  /\ headers[1] = headers[3]
  /\ headers[2] # headers[1]
  /\ results[1].key = headers[1]
  /\ results[2].key = headers[2]
  /\ HasUpperCase(headers[2])

\* C5: no empty header is analysed or reported: the result mapping, the
\* console report and the output file have no empty key, and
\* generate_description_simple is never invoked on the empty string.
C5_NoEmptyHeader ==
  /\ \A n \in 1..Len(results) : results[n].key # <<>>
  /\ \A n \in 1..Len(printed) : printed[n].key # <<>>
  /\ \A n \in 1..Len(outFile.entries) : outFile.entries[n].key # <<>>
  /\ \A n \in 1..Len(calls) : calls[n] # <<>>

\* a finished run on a first row with a trailing comma and a
\* whitespace-only field, next to a header that was reported
C5_Witness ==
  /\ pc = "done"
  /\ exitCode = 0
  /\ Len(fileRecords) = 1
  /\ fileRecords[1][Len(fileRecords[1])] = ","
  /\ \E n \in 1..Len(headers) : split(fileRecords[1])[n] = <<" ">> /\ headers[n] = <<>>
  /\ Len(outFile.entries) > 0
  /\ Len(calls) > 0

\* C6: with a wrong argument count, a missing path or an empty header list
\* main never reaches the analysis and ends with exit status 1; every
\* failure inside read_csv_headers yields the empty list, which main
\* reports as "no headers" before exiting.
C6_FatalCases ==
  /\ ( \/ argc # 2
       \/ ~pathExists
       \/ (readOutcome # "none" /\ headers = <<>>) )
     => /\ ~AnalysisReached
        /\ calls = <<>> /\ results = <<>> /\ idx = 0
        /\ pc = "done" => exitCode = 1
  /\ readOutcome \in ReadFaults \cup {"StopIteration"}
     => /\ headers = <<>>
        /\ pc \in {"check_headers", "done"}
        /\ pc = "done" => console[Len(console)] = "no_headers"

\* a run with one argument and an existing path whose read failed, ended
\* with exit status 1
C6_Witness ==
  /\ pc = "done"
  /\ exitCode = 1
  /\ argc = 2
  /\ pathExists
  /\ readOutcome \in ReadFaults \cup {"StopIteration"}

\* C7: a run that ends with a non-zero status never called save_results
\* and left the output file untouched; the output file is opened at most
\* once, and only after headers were extracted and analysed.
C7_NoOutputOnFailure ==
  /\ (pc = "done" /\ exitCode # 0)
     => openCount = 0 /\ outFile = OutputUntouched /\ saveOutcome = "none"
  /\ openCount <= 1
  /\ openCount = 1
     => /\ headers # <<>>
        /\ idx = Len(headers) + 1
        /\ pc \in {"complete", "done"}

\* a run on a missing path, ended with exit status 1
C7_Witness ==
  /\ pc = "done"
  /\ exitCode = 1
  /\ argc = 2
  /\ ~pathExists
  /\ openCount = 0

\* C8: after a failed write save_results has returned, main goes on to
\* exit status 0, and whenever the output file was opened the results had
\* been printed to the console.
C8_WriteFailureNotFatal ==
  /\ saveOutcome \in {"open_failed", "write_failed"}
     => /\ pc \in {"complete", "done"}
        /\ exitCode = 0
        /\ pc = "done" => console[Len(console)] = "complete"
  /\ openCount > 0
     => /\ printed = results
        /\ \E n \in 1..Len(console) : console[n] = "results"

\* a finished run whose write failed half way
C8_Witness ==
  /\ pc = "done"
  /\ exitCode = 0
  /\ saveOutcome = "write_failed"
  /\ outFile.status = "partial"
  /\ Len(printed) > 0

\* C9: a run that ends with exit status 0 reported at least one
\* header -> description entry.
C9_SuccessHasEntry ==
  (pc = "done" /\ exitCode = 0) => Len(results) >= 1 /\ Len(printed) >= 1

====
